---- MODULE Spec2Model ----
(***************************************************************************)
(* Model of the country chain game (src/countrygame/game.py).              *)
(*                                                                         *)
(* A Python str is modelled as a sequence of one-character strings, so     *)
(* that indexing (s[0], s[-1]), strip() and lower() are computed and not   *)
(* assumed.  The required letter is a str too: <<>> for "", <<"y">> for    *)
(* "y"; None is the value None below, which no str equals.                 *)
(*                                                                         *)
(* self.unseen_countries is a defaultdict(set): a key that was never       *)
(* written reads as the empty set and every access of game.py goes through *)
(* [] on it, so it is modelled as a total function from Keys to sets.      *)
(***************************************************************************)
EXTENDS Integers, Sequences, FiniteSets, TLC

\* ---------------------------------------------------------------- bounds
\* Largest number of lines of the countries file.
MaxLines == 4

\* ------------------------------------------------------------- constants
MAX_INVALID_INPUTS == 3

FORBIDDEN_SEPARATORS == {",", "|", ";", "\t"}

None == <<"None">>

\* -------------------------------------------------------------- alphabet
LowerChars == <<"a","b","c","d","e","f","g","h","i","j","k","l","m",
                "n","o","p","q","r","s","t","u","v","w","x","y","z">>
UpperChars == <<"A","B","C","D","E","F","G","H","I","J","K","L","M",
                "N","O","P","Q","R","S","T","U","V","W","X","Y","Z">>

\* The characters str.strip() removes.
Whitespace == {" ", "\t", "\n"}

\* The keys of unseen_countries: first characters of normalised names.
Keys == {LowerChars[i] : i \in 1..Len(LowerChars)}

\* ------------------------------------------------------- str operations
\* str.lower() on one character.
LowerChar(c) ==
    IF \E i \in 1..Len(UpperChars) : UpperChars[i] = c
    THEN LowerChars[CHOOSE i \in 1..Len(UpperChars) : UpperChars[i] = c]
    ELSE c

\* str.lower()
Lower(s) == [i \in 1..Len(s) |-> LowerChar(s[i])]

RECURSIVE LStrip(_)
LStrip(s) ==
    IF s # <<>> /\ Head(s) \in Whitespace THEN LStrip(Tail(s)) ELSE s

RECURSIVE RStrip(_)
RStrip(s) ==
    IF s # <<>> /\ s[Len(s)] \in Whitespace
    THEN RStrip(SubSeq(s, 1, Len(s) - 1))
    ELSE s

\* str.strip()
Strip(s) == RStrip(LStrip(s))

\* sep in country
Contains(s, c) == \E i \in 1..Len(s) : s[i] = c

\* s[0] and s[-1]
First(s) == s[1]
Last(s) == s[Len(s)]

\* ------------------------------------------------------------ the inputs
\* Lines the countries file is made of, as the file iterator yields them.
RawLines ==
    << <<"I","t","a","l","y","\n">>,
       <<"Y","e","m","e","n","\n">>,
       <<"n","e","p","a","l","\n">>,
       <<" ","N","i","g","e","r"," ","\n">>,
       <<"I","n","d","i","a","\n">>,
       <<"A","n","g","o","l","a","\t","\n">>,
       <<"a","l","b","a","n","i","a","\n">>,
       <<"\n">>,
       <<"A",",","B","\n">>,
       <<"a","\t","b","\n">> >>

\* A countries file: at most MaxLines of the lines above, in that order.
Files ==
    { SelectSeq(RawLines, LAMBDA l : l \in S) :
        S \in { T \in SUBSET {RawLines[i] : i \in 1..Len(RawLines)} :
                    Cardinality(T) <= MaxLines } }

QUIT_TOKEN == <<"q","u","i","t">>
RESTART_TOKEN == <<"r","e","s","t","a","r","t">>

\* What the player may type at a prompt, as input() returns it.
Inputs ==
    { QUIT_TOKEN,
      <<" ","Q","U","I","T">>,
      RESTART_TOKEN,
      <<"R","e","s","t","a","r","t"," ">>,
      <<>>,
      <<" ">>,
      <<"o","z">>,
      <<"i","t","a","l","y">>,
      <<"I","t","a","l","y">>,
      <<"y","e","m","e","n">>,
      <<"n","e","p","a","l">>,
      <<"n","i","g","e","r">>,
      <<"i","n","d","i","a">>,
      <<"a","n","g","o","l","a">>,
      <<"a","l","b","a","n","i","a">> }

\* ----------------------------------------------------------------- state
VARIABLES
    file,               \* the lines of the countries file
    all_countries,      \* self.all_countries
    unseen_countries,   \* self.unseen_countries
    invalid_countries,  \* self.invalid_countries
    pc,                 \* position of the session
    last_letter,        \* play(): last_letter
    attempts_left,      \* play(): attempts_left
    pm_attempts_left,   \* _get_player_move(): attempts_left
    player_input,       \* _get_player_move(): player_input
    player_result,      \* play(): player_result
    computer_result,    \* play(): computer_result
    output,             \* the messages printed by the last step
    accepted,           \* history: names accepted since the game (re)started
    invalid_inputs,     \* history: empty/invalid inputs read in this turn
    prev_invalid,       \* history: the same count for the previous accepted turn
    consumed_at_reset   \* history: names consumed when the last restart came

vars == <<file, all_countries, unseen_countries, invalid_countries, pc,
          last_letter, attempts_left, pm_attempts_left, player_input,
          player_result, computer_result, output, accepted, invalid_inputs,
          prev_invalid, consumed_at_reset>>

\* MoveResult(status, last_letter)
MoveResult(status, letter) == [status |-> status, last_letter |-> letter]

\* defaultdict(set)
EmptyUnseen == [k \in Keys |-> {}]

\* -------------------------------------------------------------- loading
\* _get_input_country: the country a line yields (None when skipped) and
\* the entry it adds to invalid_countries (None when it adds nothing).
InputCountry(line) ==
    LET country == Strip(line) IN
    IF country = <<>>
    THEN [country |-> None, invalid |-> None]
    ELSE IF \E sep \in FORBIDDEN_SEPARATORS : Contains(country, sep)
    THEN [country |-> None, invalid |-> country]
    ELSE [country |-> Lower(country), invalid |-> None]

\* Mutant of LoadLine: files the country under its last character.
LoadLineByLast(st, line) ==
    LET r == InputCountry(line) IN
    IF r.country = None
    THEN IF r.invalid = None
         THEN st
         ELSE [st EXCEPT !.invalid = @ \cup {r.invalid}]
    ELSE [st EXCEPT !.all = @ \cup {r.country},
                    !.unseen = [@ EXCEPT ![Last(r.country)] = @ \cup {r.country}]]

\* The body of the for loop of _load_all_countries on one line.
LoadLine(st, line) ==
    LET r == InputCountry(line) IN
    IF r.country = None
    THEN IF r.invalid = None
         THEN st
         ELSE [st EXCEPT !.invalid = @ \cup {r.invalid}]
    ELSE [st EXCEPT !.all = @ \cup {r.country},
                    !.unseen = [@ EXCEPT ![First(r.country)] = @ \cup {r.country}]]

RECURSIVE LoadFrom(_, _, _)
LoadFrom(lines, i, st) ==
    IF i > Len(lines) THEN st
    ELSE LoadFrom(lines, i + 1, LoadLine(st, lines[i]))

\* _load_all_countries
LoadAllCountries(lines) ==
    LoadFrom(lines, 1, [all |-> {}, unseen |-> EmptyUnseen, invalid |-> {}])

\* _reset_all
RECURSIVE ResetFrom(_, _)
ResetFrom(countries, unseen) ==
    IF countries = {} THEN unseen
    ELSE LET country == CHOOSE c \in countries : TRUE IN
         ResetFrom(countries \ {country},
                   [unseen EXCEPT ![First(country)] = @ \cup {country}])

\* Mutant of ResetAll: leaves the unseen countries as they are.
ResetAllStale(countries) == unseen_countries

ResetAll(countries) == ResetFrom(countries, EmptyUnseen)

\* Mutant of ResetGameState: keeps the required letter.
ResetGameStateKeepsLetter == <<last_letter, MAX_INVALID_INPUTS>>

\* _reset_game_state: the pair (last_letter, attempts_left) it returns.
ResetGameState == << <<>>, MAX_INVALID_INPUTS >>

\* ------------------------------------------------------------------ Init
\* Mutant of NoValidCountries: the check is missing.
NoValidCountriesNever(countries) == FALSE

\* __init__: if not self.all_countries (then it raises ValueError)
NoValidCountries(countries) == countries = {}

\* __init__: the state after construction; pc = "failed" when it raised
\* ValueError because no valid country was found.
Init ==
    /\ file \in Files
    /\ LET st == LoadAllCountries(file) IN
        /\ all_countries = st.all
        /\ unseen_countries = st.unseen
        /\ invalid_countries = st.invalid
        /\ pc = IF NoValidCountries(st.all) THEN "failed" ELSE "start"
    /\ last_letter = <<>>
    /\ attempts_left = 0
    /\ pm_attempts_left = 0
    /\ player_input = <<>>
    /\ player_result = MoveResult("NONE", None)
    /\ computer_result = MoveResult("NONE", None)
    /\ output = <<>>
    /\ accepted = <<>>
    /\ invalid_inputs = 0
    /\ prev_invalid = 0
    /\ consumed_at_reset = 0

\* ------------------------------------------------------------ the moves
\* What _print_welcome_message prints.
WelcomeMessage ==
    IF invalid_countries # {} THEN <<"welcome", "invalid_countries">>
    ELSE <<"welcome">>

\* "Invalid country": player_input not in self.all_countries
NotACountry(inp, countries) == inp \notin countries

\* Mutant of WrongFirstLetter: the check is missing.
WrongFirstLetterNever(inp, ll) == FALSE

\* "Wrong first letter": last_letter and player_input[0] != last_letter
WrongFirstLetter(inp, ll) == ll # <<>> /\ <<First(inp)>> # ll

\* Mutant of AlreadyUsed: the check is missing.
AlreadyUsedNever(inp, unseen) == FALSE

\* "Already used": player_input not in self.unseen_countries[player_input[0]]
AlreadyUsed(inp, unseen) == inp \notin unseen[First(inp)]

\* Mutant of Remove: empties the bucket.
RemoveBucket(unseen, key, country) == [unseen EXCEPT ![key] = {}]

\* self.unseen_countries[key].remove(country)
Remove(unseen, key, country) == [unseen EXCEPT ![key] = @ \ {country}]

\* set.remove raises KeyError when the country is not in the bucket.
RemoveRaises(unseen, key, country) == country \notin unseen[key]

\* Mutant of LetterTooLong: the check is missing.
LetterTooLongNever(ll) == FALSE

\* _get_player_move: len(last_letter) > 1 (then it raises ValueError)
LetterTooLong(ll) == Len(ll) > 1

\* Mutant of NoCountriesLeft: the check is missing.
NoCountriesLeftNever(ll, unseen) == FALSE

\* _get_player_move: last_letter and not self.unseen_countries[last_letter]
NoCountriesLeft(ll, unseen) == ll # <<>> /\ unseen[First(ll)] = {}

\* Mutant of LoopTest: one pass too many.
LoopTestInclusive(attempts) == attempts >= 0

\* The test of the while loop: attempts_left > 0
LoopTest(attempts) == attempts > 0

\* Mutant of PlayerBreaks: no player status breaks the loop.
PlayerBreaksNever(status) == FALSE

\* Mutant of PlayerBreaks: QUIT does not break the loop.
PlayerBreaksOnLose(status) == status \in {"LOSE"}

\* play(): the statuses of a player move that break the loop.
PlayerBreaks(status) == status \in {"QUIT", "LOSE"}

\* Mutant of ComputerBreaks: WIN does not break the loop.
ComputerBreaksOnLose(status) == status \in {"LOSE"}

\* play(): the statuses of a computer move that break the loop.
ComputerBreaks(status) == status \in {"WIN", "LOSE"}

\* Mutant of TurnAttempts: the attempts left over from the turn before.
TurnAttemptsCarried == IF accepted = <<>> THEN attempts_left ELSE pm_attempts_left

\* play(): the attempts_left it passes to _get_player_move.
TurnAttempts == attempts_left

\* Mutant of PlayerIteration: an empty input spends no attempt.
PlayerIterationFreeEmpty(inp, ll, attempts, unseen, countries) ==
    LET base == [returned |-> TRUE, result |-> MoveResult("LOSE", None),
                 attempts |-> attempts, unseen |-> unseen, msg |-> <<>>,
                 raised |-> FALSE] IN
    IF inp = QUIT_TOKEN
    THEN [base EXCEPT !.result = MoveResult("QUIT", None), !.msg = <<"bye">>]
    ELSE IF inp = RESTART_TOKEN
    THEN [base EXCEPT !.result = MoveResult("RESTART", None),
                      !.unseen = ResetAll(countries),
                      !.msg = <<"clear", "restarted">>]
    ELSE IF inp = <<>>
    THEN [base EXCEPT !.returned = FALSE, !.msg = <<"empty">>]
    ELSE IF NotACountry(inp, countries)
    THEN [base EXCEPT !.returned = FALSE, !.attempts = attempts - 1,
                      !.msg = <<"invalid">>]
    ELSE IF WrongFirstLetter(inp, ll)
    THEN [base EXCEPT !.msg = <<"wrong_letter">>]
    ELSE IF AlreadyUsed(inp, unseen)
    THEN [base EXCEPT !.msg = <<"already_used">>]
    ELSE IF RemoveRaises(unseen, First(inp), inp)
    THEN [base EXCEPT !.raised = TRUE]
    ELSE [base EXCEPT !.result = MoveResult("CONTINUE", <<Last(inp)>>),
                      !.unseen = Remove(unseen, First(inp), inp),
                      !.msg = <<"accepted">>]

\* Mutant of PlayerIteration: consumes a country of the wrong letter.
PlayerIterationEagerRemove(inp, ll, attempts, unseen, countries) ==
    LET base == [returned |-> TRUE, result |-> MoveResult("LOSE", None),
                 attempts |-> attempts, unseen |-> unseen, msg |-> <<>>,
                 raised |-> FALSE] IN
    IF inp = QUIT_TOKEN
    THEN [base EXCEPT !.result = MoveResult("QUIT", None), !.msg = <<"bye">>]
    ELSE IF inp = RESTART_TOKEN
    THEN [base EXCEPT !.result = MoveResult("RESTART", None),
                      !.unseen = ResetAll(countries),
                      !.msg = <<"clear", "restarted">>]
    ELSE IF inp = <<>>
    THEN [base EXCEPT !.returned = FALSE, !.attempts = attempts - 1,
                      !.msg = <<"empty">>]
    ELSE IF NotACountry(inp, countries)
    THEN [base EXCEPT !.returned = FALSE, !.attempts = attempts - 1,
                      !.msg = <<"invalid">>]
    ELSE IF WrongFirstLetter(inp, ll)
    THEN [base EXCEPT !.unseen = [unseen EXCEPT ![First(inp)] = @ \ {inp}],
                      !.msg = <<"wrong_letter">>]
    ELSE IF AlreadyUsed(inp, unseen)
    THEN [base EXCEPT !.msg = <<"already_used">>]
    ELSE IF RemoveRaises(unseen, First(inp), inp)
    THEN [base EXCEPT !.raised = TRUE]
    ELSE [base EXCEPT !.result = MoveResult("CONTINUE", <<Last(inp)>>),
                      !.unseen = Remove(unseen, First(inp), inp),
                      !.msg = <<"accepted">>]

\* Mutant of PlayerIteration: tests already used before the first letter.
PlayerIterationUsedFirst(inp, ll, attempts, unseen, countries) ==
    LET base == [returned |-> TRUE, result |-> MoveResult("LOSE", None),
                 attempts |-> attempts, unseen |-> unseen, msg |-> <<>>,
                 raised |-> FALSE] IN
    IF inp = QUIT_TOKEN
    THEN [base EXCEPT !.result = MoveResult("QUIT", None), !.msg = <<"bye">>]
    ELSE IF inp = RESTART_TOKEN
    THEN [base EXCEPT !.result = MoveResult("RESTART", None),
                      !.unseen = ResetAll(countries),
                      !.msg = <<"clear", "restarted">>]
    ELSE IF inp = <<>>
    THEN [base EXCEPT !.returned = FALSE, !.attempts = attempts - 1,
                      !.msg = <<"empty">>]
    ELSE IF NotACountry(inp, countries)
    THEN [base EXCEPT !.returned = FALSE, !.attempts = attempts - 1,
                      !.msg = <<"invalid">>]
    ELSE IF AlreadyUsed(inp, unseen)
    THEN [base EXCEPT !.msg = <<"already_used">>]
    ELSE IF WrongFirstLetter(inp, ll)
    THEN [base EXCEPT !.msg = <<"wrong_letter">>]
    ELSE IF RemoveRaises(unseen, First(inp), inp)
    THEN [base EXCEPT !.raised = TRUE]
    ELSE [base EXCEPT !.result = MoveResult("CONTINUE", <<Last(inp)>>),
                      !.unseen = Remove(unseen, First(inp), inp),
                      !.msg = <<"accepted">>]

\* One pass of the while loop of _get_player_move on the normalised input
\* inp, with required letter ll, attempts left and the unseen countries:
\* whether it returned (or hit continue), the MoveResult, the attempts and
\* unseen countries after it, what it printed, and whether it raised
\* KeyError instead.
PlayerIteration(inp, ll, attempts, unseen, countries) ==
    LET base == [returned |-> TRUE, result |-> MoveResult("LOSE", None),
                 attempts |-> attempts, unseen |-> unseen, msg |-> <<>>,
                 raised |-> FALSE] IN
    IF inp = QUIT_TOKEN
    THEN [base EXCEPT !.result = MoveResult("QUIT", None), !.msg = <<"bye">>]
    ELSE IF inp = RESTART_TOKEN
    THEN [base EXCEPT !.result = MoveResult("RESTART", None),
                      !.unseen = ResetAll(countries),
                      !.msg = <<"clear", "restarted">>]
    ELSE IF inp = <<>>
    THEN [base EXCEPT !.returned = FALSE, !.attempts = attempts - 1,
                      !.msg = <<"empty">>]
    ELSE IF NotACountry(inp, countries)
    THEN [base EXCEPT !.returned = FALSE, !.attempts = attempts - 1,
                      !.msg = <<"invalid">>]
    ELSE IF WrongFirstLetter(inp, ll)
    THEN [base EXCEPT !.msg = <<"wrong_letter">>]
    ELSE IF AlreadyUsed(inp, unseen)
    THEN [base EXCEPT !.msg = <<"already_used">>]
    ELSE IF RemoveRaises(unseen, First(inp), inp)
    THEN [base EXCEPT !.raised = TRUE]
    ELSE [base EXCEPT !.result = MoveResult("CONTINUE", <<Last(inp)>>),
                      !.unseen = Remove(unseen, First(inp), inp),
                      !.msg = <<"accepted">>]

\* play(): the call of _reset_game_state before the loop.
PlayStart ==
    /\ pc = "start"
    /\ last_letter' = ResetGameState[1]
    /\ attempts_left' = ResetGameState[2]
    /\ output' = WelcomeMessage
    /\ pc' = "player_move"
    /\ UNCHANGED <<file, all_countries, unseen_countries, invalid_countries,
                   pm_attempts_left, player_input, player_result,
                   computer_result, accepted, invalid_inputs, prev_invalid,
                   consumed_at_reset>>

\* _get_player_move(last_letter, attempts_left) up to its first input():
\* the checks before the first prompt.  It goes on to prompt, or to
\* returned with the MoveResult in player_result, or raises.
EnterPlayerMove(prompt, returned) ==
    /\ invalid_inputs' = 0
    /\ IF last_letter = None
       THEN \* len(None) raises TypeError
            /\ pc' = "TypeError"
            /\ output' = <<>>
            /\ UNCHANGED <<pm_attempts_left, player_result>>
       ELSE IF LetterTooLong(last_letter)
       THEN /\ pc' = "ValueError"
            /\ output' = <<>>
            /\ UNCHANGED <<pm_attempts_left, player_result>>
       ELSE IF NoCountriesLeft(last_letter, unseen_countries)
       THEN /\ output' = <<"out_of_luck">>
            /\ player_result' = MoveResult("LOSE", None)
            /\ pc' = returned
            /\ UNCHANGED pm_attempts_left
       ELSE /\ pm_attempts_left' = TurnAttempts
            /\ IF LoopTest(TurnAttempts)
               THEN /\ pc' = prompt
                    /\ output' = <<>>
                    /\ UNCHANGED player_result
               ELSE /\ output' = <<"max_invalid">>
                    /\ player_result' = MoveResult("LOSE", None)
                    /\ pc' = returned
    /\ UNCHANGED <<file, all_countries, unseen_countries, invalid_countries,
                   last_letter, attempts_left, player_input, computer_result,
                   accepted, prev_invalid, consumed_at_reset>>

\* play() calls _get_player_move(last_letter, attempts_left); a LOSE it
\* returns before the first prompt breaks the loop.
PlayerMoveEnter ==
    /\ pc = "player_move"
    /\ EnterPlayerMove("input", "done")

\* One input() of _get_player_move and what follows it up to the next
\* blocking point: the pass of the while loop, the loop test, the return
\* and play()'s handling of the returned status.
PlayerInput(raw) ==
    /\ pc = "input"
    /\ LET inp == Lower(Strip(raw))
           it == PlayerIteration(inp, last_letter, pm_attempts_left,
                                 unseen_countries, all_countries)
       IN
        /\ player_input' = inp
        /\ unseen_countries' = it.unseen
        /\ pm_attempts_left' = it.attempts
        /\ IF it.raised
           THEN /\ pc' = "KeyError"
                /\ output' = <<>>
                /\ UNCHANGED <<player_result, invalid_inputs, last_letter,
                               attempts_left, accepted, prev_invalid,
                               consumed_at_reset>>
           ELSE IF ~it.returned
           THEN /\ invalid_inputs' = invalid_inputs + 1
                /\ UNCHANGED <<last_letter, attempts_left, accepted,
                               prev_invalid, consumed_at_reset>>
                /\ IF LoopTest(it.attempts)
                   THEN /\ pc' = "input"
                        /\ output' = it.msg
                        /\ UNCHANGED player_result
                   ELSE /\ output' = it.msg \o <<"max_invalid">>
                        /\ player_result' = MoveResult("LOSE", None)
                        /\ pc' = "done"
           ELSE /\ player_result' = it.result
                /\ UNCHANGED invalid_inputs
                /\ IF it.result.status = "RESTART"
                   THEN /\ last_letter' = ResetGameState[1]
                        /\ attempts_left' = ResetGameState[2]
                        /\ output' = it.msg \o WelcomeMessage
                        /\ consumed_at_reset' = Len(accepted)
                        /\ accepted' = <<>>
                        /\ prev_invalid' = 0
                        /\ pc' = "player_move"
                   ELSE IF PlayerBreaks(it.result.status)
                   THEN /\ output' = it.msg
                        /\ pc' = "done"
                        /\ UNCHANGED <<last_letter, attempts_left, accepted,
                                       prev_invalid, consumed_at_reset>>
                   ELSE /\ output' = it.msg
                        /\ accepted' = IF it.result.status = "CONTINUE"
                                       THEN Append(accepted, [by |-> "player",
                                                              name |-> inp])
                                       ELSE accepted
                        /\ prev_invalid' = invalid_inputs
                        /\ pc' = "computer_move"
                        /\ UNCHANGED <<last_letter, attempts_left,
                                       consumed_at_reset>>
    /\ UNCHANGED <<file, all_countries, invalid_countries, computer_result>>

\* Mutant of AvailableCountries: every unseen country, whatever its letter.
AvailableCountriesAnyLetter(last_player_letter, unseen) ==
    UNION {unseen[k] : k \in Keys}

\* available_countries = list(self.unseen_countries[last_player_letter])
AvailableCountries(last_player_letter, unseen) ==
    unseen[First(last_player_letter)]

\* Mutant of GetComputerMove: returns its whole pick as the letter.
GetComputerMoveWholeName(last_player_letter, unseen) ==
    IF last_player_letter = None \/ last_player_letter = <<>>
    THEN {[result |-> MoveResult("RETRY", None), unseen |-> unseen,
           msg |-> <<"cannot_respond">>, choice |-> None, raised |-> FALSE]}
    ELSE IF unseen[First(last_player_letter)] = {}
    THEN {[result |-> MoveResult("WIN", None), unseen |-> unseen,
           msg |-> <<"you_win">>, choice |-> None, raised |-> FALSE]}
    ELSE {[result |-> MoveResult("CONTINUE", computer_choice),
           unseen |-> [unseen EXCEPT ![First(last_player_letter)] =
                                        @ \ {computer_choice}],
           msg |-> <<"computer">>, choice |-> computer_choice,
           raised |-> FALSE] :
            computer_choice \in unseen[First(last_player_letter)]}

\* Mutant of GetComputerMove: returns the first character of its pick.
GetComputerMoveFirstLetter(last_player_letter, unseen) ==
    IF last_player_letter = None \/ last_player_letter = <<>>
    THEN {[result |-> MoveResult("RETRY", None), unseen |-> unseen,
           msg |-> <<"cannot_respond">>, choice |-> None, raised |-> FALSE]}
    ELSE IF unseen[First(last_player_letter)] = {}
    THEN {[result |-> MoveResult("WIN", None), unseen |-> unseen,
           msg |-> <<"you_win">>, choice |-> None, raised |-> FALSE]}
    ELSE {[result |-> MoveResult("CONTINUE",
                                 Lower(<<First(computer_choice)>>)),
           unseen |-> [unseen EXCEPT ![First(last_player_letter)] =
                                        @ \ {computer_choice}],
           msg |-> <<"computer">>, choice |-> computer_choice,
           raised |-> FALSE] :
            computer_choice \in unseen[First(last_player_letter)]}

\* _get_computer_move: the outcomes it can have, one for each country
\* random.choice can return: the MoveResult, the unseen countries after it,
\* what it printed, the country it picked (None when it picked none) and
\* whether it raised KeyError instead.
GetComputerMove(last_player_letter, unseen) ==
    IF last_player_letter = None \/ last_player_letter = <<>>
    THEN {[result |-> MoveResult("RETRY", None), unseen |-> unseen,
           msg |-> <<"cannot_respond">>, choice |-> None, raised |-> FALSE]}
    ELSE IF AvailableCountries(last_player_letter, unseen) = {}
    THEN {[result |-> MoveResult("WIN", None), unseen |-> unseen,
           msg |-> <<"you_win">>, choice |-> None, raised |-> FALSE]}
    ELSE {IF RemoveRaises(unseen, First(last_player_letter), computer_choice)
          THEN [result |-> MoveResult("NONE", None), unseen |-> unseen,
                msg |-> <<>>, choice |-> None, raised |-> TRUE]
          ELSE [result |-> MoveResult("CONTINUE",
                                      Lower(<<Last(computer_choice)>>)),
                unseen |-> Remove(unseen, First(last_player_letter),
                                  computer_choice),
                msg |-> <<"computer">>, choice |-> computer_choice,
                raised |-> FALSE] :
            computer_choice \in AvailableCountries(last_player_letter, unseen)}

\* play() calls _get_computer_move(player_result.last_letter) and handles
\* the returned status.
ComputerMove ==
    /\ pc = "computer_move"
    /\ \E move \in GetComputerMove(player_result.last_letter, unseen_countries) :
        /\ unseen_countries' = move.unseen
        /\ output' = move.msg
        /\ accepted' = IF move.choice = None THEN accepted
                       ELSE Append(accepted, [by |-> "computer",
                                              name |-> move.choice])
        /\ IF move.raised
           THEN /\ pc' = "KeyError"
                /\ UNCHANGED <<computer_result, last_letter>>
           ELSE /\ computer_result' = move.result
                /\ IF ComputerBreaks(move.result.status)
                   THEN /\ pc' = "done"
                        /\ UNCHANGED last_letter
                   ELSE /\ last_letter' = move.result.last_letter
                        /\ pc' = "player_move"
    /\ UNCHANGED <<file, all_countries, invalid_countries, attempts_left,
                   pm_attempts_left, player_input, player_result,
                   invalid_inputs, prev_invalid, consumed_at_reset>>

Next ==
    \/ PlayStart
    \/ PlayerMoveEnter
    \/ \E raw \in Inputs : PlayerInput(raw)
    \/ ComputerMove

Spec == Init /\ [][Next]_vars

\* play() runs on: each statement is executed once it is reached, and
\* input() returns once the player has typed a line.
FairSpec == Spec /\ WF_vars(Next)

\* ------------------------------------------------------- direct calls
\* The moves called on a constructed game outside play(), as the tests
\* call them: last_letter and attempts_left hold the arguments.
PlayerCallLetters ==
    { <<>>, <<"i">>, <<"n">>, <<"a","b">>, <<"s","s","d","f","f">> }

ComputerCallLetters == { None, <<>>, <<"i">>, <<"y">> }

DirectInit ==
    /\ file \in Files
    /\ LET st == LoadAllCountries(file) IN
        /\ ~NoValidCountries(st.all)
        /\ all_countries = st.all
        /\ unseen_countries = st.unseen
        /\ invalid_countries = st.invalid
    /\ \/ /\ pc = "direct_player"
          /\ last_letter \in PlayerCallLetters
          /\ attempts_left \in 0..MAX_INVALID_INPUTS
       \/ /\ pc = "direct_computer"
          /\ last_letter \in ComputerCallLetters
          /\ attempts_left = MAX_INVALID_INPUTS
    /\ pm_attempts_left = 0
    /\ player_input = <<>>
    /\ player_result = MoveResult("NONE", None)
    /\ computer_result = MoveResult("NONE", None)
    /\ output = <<>>
    /\ accepted = <<>>
    /\ invalid_inputs = 0
    /\ prev_invalid = 0
    /\ consumed_at_reset = 0

\* game._get_player_move(last_letter, attempts_left), up to its first prompt
DirectPlayerMove ==
    /\ pc = "direct_player"
    /\ EnterPlayerMove("direct_prompt", "direct_returned")

\* game._get_computer_move(last_letter)
DirectComputerMove ==
    /\ pc = "direct_computer"
    /\ \E move \in GetComputerMove(last_letter, unseen_countries) :
        /\ unseen_countries' = move.unseen
        /\ output' = move.msg
        /\ IF move.raised
           THEN /\ pc' = "KeyError"
                /\ UNCHANGED computer_result
           ELSE /\ pc' = "direct_returned"
                /\ computer_result' = move.result
    /\ UNCHANGED <<file, all_countries, invalid_countries, last_letter,
                   attempts_left, pm_attempts_left, player_input,
                   player_result, accepted, invalid_inputs, prev_invalid,
                   consumed_at_reset>>

NextWithCalls ==
    \/ Next
    \/ DirectPlayerMove
    \/ DirectComputerMove

\* The play loop, and the direct calls of the two moves.
SpecWithCalls == (Init \/ DirectInit) /\ [][NextWithCalls]_vars

\* ---------------------------------------------------------------- claims
\* The full per-letter partition of a set of countries.
FullPartition(countries) ==
    [L \in Keys |-> {c \in countries : First(c) = L}]

\* The names accepted so far in this game.
Consumed == {accepted[i].name : i \in 1..Len(accepted)}

\* An input that costs an attempt: empty, or not a country.
CostsAttempt(inp) ==
    /\ inp # QUIT_TOKEN
    /\ inp # RESTART_TOKEN
    /\ (inp = <<>> \/ inp \notin all_countries)

\* An input that is a playable country for the required letter.
Playable(inp) ==
    /\ inp \notin {QUIT_TOKEN, RESTART_TOKEN, <<>>}
    /\ inp \in all_countries
    /\ inp \in unseen_countries[First(inp)]
    /\ (last_letter = <<>> \/ <<First(inp)>> = last_letter)

\* C1: for every letter L, Unseen[L] is a subset of the names of
\* AllCountries that start with L, and no name is in two buckets, after
\* construction and after any sequence of moves and restarts.
C1_UnseenPartition ==
    /\ \A L \in Keys :
         unseen_countries[L] \subseteq {c \in all_countries : First(c) = L}
    /\ \A L1, L2 \in Keys :
         L1 # L2 => unseen_countries[L1] \cap unseen_countries[L2] = {}

C1_Witness ==
    /\ Len(accepted) >= 2
    /\ consumed_at_reset > 0
    /\ \E L \in Keys : unseen_countries[L] # {}

\* No name is accepted twice within one game.
NoRepeat ==
    \A i, j \in 1..Len(accepted) :
        accepted[i].name = accepted[j].name => i = j

\* C2 as stated: no name is accepted twice within one game, and every
\* player submission of a name already consumed in this game resolves to
\* LOSE with the "already used" message.
C2_Original ==
    /\ []NoRepeat
    /\ [][(pc = "input" /\ player_input' \in Consumed)
            => /\ player_result' = MoveResult("LOSE", None)
               /\ output' = <<"already_used">>]_vars

\* C2 as amended: no name is accepted twice within one game; a player
\* submission of a name already consumed in this game resolves to LOSE and
\* consumes nothing, with the "already used" message when the name starts
\* with the required letter and with the "wrong starting letter" message
\* when it does not.
C2_NoRepeats ==
    /\ []NoRepeat
    /\ [][(pc = "input" /\ player_input' \in Consumed)
            => /\ player_result' = MoveResult("LOSE", None)
               /\ pc' = "done"
               /\ UNCHANGED <<unseen_countries, accepted>>
               /\ player_input' \in all_countries
               /\ output' = IF <<First(player_input')>> = last_letter
                            THEN <<"already_used">>
                            ELSE <<"wrong_letter">>]_vars

C2_Witness ==
    /\ pc = "done"
    /\ output = <<"already_used">>
    /\ player_input \in all_countries
    /\ \E i \in 1..Len(accepted) :
        accepted[i].by = "computer" /\ accepted[i].name = player_input

\* The accepted names alternate player, computer, ... from the player on,
\* and each starts with the last letter of the one before it.
Chain ==
    \A i \in 1..Len(accepted) :
        /\ accepted[i].by = (IF i % 2 = 1 THEN "player" ELSE "computer")
        /\ i > 1 => First(accepted[i].name) = Last(accepted[i - 1].name)

\* C3: the accepted names form an alternating chain that the player
\* starts, each name starting with the last letter of the one before; a
\* player submission of a valid country with another first character than
\* the required letter resolves to LOSE ("wrong starting letter") and is
\* not consumed.
C3_Chain ==
    /\ []Chain
    /\ [][(/\ pc = "input"
           /\ player_input' \in all_countries
           /\ last_letter # <<>>
           /\ <<First(player_input')>> # last_letter)
            => /\ player_result' = MoveResult("LOSE", None)
               /\ output' = <<"wrong_letter">>
               /\ pc' = "done"
               /\ UNCHANGED <<unseen_countries, accepted>>]_vars

C3_Witness ==
    /\ pc = "done"
    /\ output = <<"wrong_letter">>
    /\ Len(accepted) >= 2
    /\ player_input \in unseen_countries[First(player_input)]

\* C4: in one player turn the empty and not-a-country inputs share one
\* budget of MAX_INVALID_INPUTS: the turn resolves to LOSE with the
\* exhausted-attempts message exactly on the input that brings their count
\* to MAX_INVALID_INPUTS, and each earlier one prompts again with the same
\* required letter and one attempt fewer.
C4_SharedBudget ==
    /\ [](pc = "input" => invalid_inputs < MAX_INVALID_INPUTS)
    /\ [](output # <<>> /\ Last(output) = "max_invalid"
            => invalid_inputs = MAX_INVALID_INPUTS)
    /\ [][(pc = "input" /\ CostsAttempt(player_input'))
            => /\ invalid_inputs' = invalid_inputs + 1
               /\ UNCHANGED <<unseen_countries, last_letter>>
               /\ IF invalid_inputs' = MAX_INVALID_INPUTS
                  THEN /\ player_result' = MoveResult("LOSE", None)
                       /\ Last(output') = "max_invalid"
                       /\ pc' = "done"
                  ELSE /\ pc' = "input"
                       /\ pm_attempts_left' = pm_attempts_left - 1
                       /\ pm_attempts_left' > 0
                       /\ Last(output') # "max_invalid"
                       /\ UNCHANGED player_result]_vars

C4_Witness ==
    /\ pc = "done"
    /\ invalid_inputs = MAX_INVALID_INPUTS
    /\ output = <<"invalid", "max_invalid">>
    /\ player_result = MoveResult("LOSE", None)
    /\ last_letter # <<>>

\* C5: an accepted move resets the budget: after MAX_INVALID_INPUTS - 1
\* empty or invalid inputs a valid name resolves to CONTINUE, and every
\* player turn has the full budget whatever earlier turns spent.
C5_BudgetReset ==
    /\ [](pc = "input"
            => pm_attempts_left = MAX_INVALID_INPUTS - invalid_inputs)
    /\ [][(/\ pc = "input"
           /\ invalid_inputs = MAX_INVALID_INPUTS - 1
           /\ Playable(player_input'))
            => /\ player_result'.status = "CONTINUE"
               /\ pc' = "computer_move"]_vars
    /\ [][(pc = "player_move" /\ pc' = "input")
            => /\ invalid_inputs' = 0
               /\ pm_attempts_left' = MAX_INVALID_INPUTS]_vars

C5_Witness ==
    /\ pc = "input"
    /\ Len(accepted) >= 2
    /\ prev_invalid = MAX_INVALID_INPUTS - 1
    /\ invalid_inputs = MAX_INVALID_INPUTS - 1
    /\ pm_attempts_left = 1

\* C6: a reset restores Unseen to the full per-letter partition of
\* AllCountries whatever was consumed before it, and leaves AllCountries
\* unchanged.
C6_ResetRestores ==
    [][(pc = "input" /\ player_input' = RESTART_TOKEN)
        => /\ unseen_countries' = FullPartition(all_countries)
           /\ all_countries' = all_countries]_vars

C6_Witness ==
    /\ player_result.status = "RESTART"
    /\ consumed_at_reset >= 2
    /\ pc = "player_move"
    /\ unseen_countries = FullPartition(all_countries)

\* C7: "restart" at any prompt resolves to RESTART, resets Unseen to the
\* full partition and continues the loop with a player turn that has no
\* required letter and MAX_INVALID_INPUTS attempts; the computer does not
\* move in between and the session does not end.
C7_Restart ==
    /\ [][(pc = "input" /\ player_input' = RESTART_TOKEN)
            => /\ player_result' = MoveResult("RESTART", None)
               /\ unseen_countries' = FullPartition(all_countries)
               /\ pc' = "player_move"
               /\ last_letter' = <<>>
               /\ attempts_left' = MAX_INVALID_INPUTS
               /\ accepted' = <<>>
               /\ UNCHANGED computer_result]_vars
    /\ [][(pc = "player_move" /\ player_result.status = "RESTART")
            => /\ pc' = "input"
               /\ last_letter' = <<>>
               /\ pm_attempts_left' = MAX_INVALID_INPUTS
               /\ UNCHANGED <<unseen_countries, computer_result>>]_vars

C7_Witness ==
    /\ player_result.status = "RESTART"
    /\ pc = "player_move"
    /\ invalid_inputs = MAX_INVALID_INPUTS - 1
    /\ consumed_at_reset >= 2
    /\ last_letter = <<>>
    /\ attempts_left = MAX_INVALID_INPUTS

\* C8: "quit" at any prompt resolves to QUIT with no letter and ends the
\* session at once: no step follows it, and Unseen, AllCountries and
\* Invalid-Entries are as they were before the input.
C8_Quit ==
    /\ [][(pc = "input" /\ player_input' = QUIT_TOKEN)
            => /\ player_result' = MoveResult("QUIT", None)
               /\ pc' = "done"
               /\ UNCHANGED <<unseen_countries, all_countries,
                              invalid_countries, computer_result, accepted>>]_vars
    /\ [][player_result.status # "QUIT"]_vars

C8_Witness ==
    /\ player_result = MoveResult("QUIT", None)
    /\ pc = "done"
    /\ Len(accepted) >= 2
    /\ invalid_inputs = 1

\* C9: a submission that is in AllCountries, still unseen and starts with
\* the required letter (or none is required) resolves to CONTINUE with the
\* name's last character and removes exactly that name from the bucket of
\* its first letter; and only a restart ever adds a name to Unseen.
C9_ValidMove ==
    /\ [][(pc = "input" /\ Playable(player_input'))
            => /\ player_result' =
                    MoveResult("CONTINUE", <<Last(player_input')>>)
               /\ unseen_countries' =
                    [L \in Keys |->
                        IF L = First(player_input')
                        THEN unseen_countries[L] \ {player_input'}
                        ELSE unseen_countries[L]]
               /\ pc' = "computer_move"]_vars
    /\ [][(\E L \in Keys : ~(unseen_countries'[L] \subseteq unseen_countries[L]))
            => (pc = "input" /\ player_input' = RESTART_TOKEN)]_vars

C9_Witness ==
    /\ pc = "computer_move"
    /\ player_result = MoveResult("CONTINUE", <<Last(player_input)>>)
    /\ Len(accepted) = 3
    /\ unseen_countries[First(player_input)] # {}
    /\ player_input \notin unseen_countries[First(player_input)]

\* C10: a computer move with a non-empty required letter L resolves to WIN
\* with no letter exactly when Unseen[L] is empty, and then consumes
\* nothing and ends the session.
C10_ComputerWin ==
    /\ [][(/\ pc = "computer_move"
           /\ player_result.last_letter # None
           /\ player_result.last_letter # <<>>)
            => /\ (computer_result'.status = "WIN"
                     <=> unseen_countries[First(player_result.last_letter)] = {})
               /\ computer_result'.status = "WIN"
                     => /\ computer_result' = MoveResult("WIN", None)
                        /\ pc' = "done"
                        /\ UNCHANGED <<unseen_countries, accepted>>]_vars
    /\ [][computer_result.status # "WIN"]_vars

C10_Witness ==
    /\ computer_result = MoveResult("WIN", None)
    /\ pc = "done"
    /\ Len(accepted) = 3
    /\ unseen_countries[First(player_result.last_letter)] = {}

\* The required letter of a computer move of the play loop, when it has one.
ComputerLetterSet ==
    /\ pc = "computer_move"
    /\ player_result.last_letter # None
    /\ player_result.last_letter # <<>>

\* C11: a computer move with required letter L and non-empty Unseen[L]
\* resolves to CONTINUE: it picks a member of Unseen[L] (any member can be
\* picked), removes that name from Unseen[L] and nothing else, and carries
\* the name's last character as the player's next required letter.
C11_ComputerPick ==
    /\ [](ComputerLetterSet
            => \A c \in unseen_countries[First(player_result.last_letter)] :
                 ENABLED (ComputerMove
                          /\ accepted' = Append(accepted, [by |-> "computer",
                                                           name |-> c])))
    /\ [][(/\ ComputerLetterSet
           /\ unseen_countries[First(player_result.last_letter)] # {})
            => \E c \in unseen_countries[First(player_result.last_letter)] :
                 /\ computer_result' = MoveResult("CONTINUE", <<c[Len(c)]>>)
                 /\ unseen_countries' =
                      [L \in Keys |->
                          IF L = First(player_result.last_letter)
                          THEN unseen_countries[L] \ {c}
                          ELSE unseen_countries[L]]
                 /\ accepted' = Append(accepted, [by |-> "computer",
                                                  name |-> c])
                 /\ last_letter' = <<c[Len(c)]>>
                 /\ pc' = "player_move"]_vars

C11_Witness ==
    /\ pc = "player_move"
    /\ computer_result.status = "CONTINUE"
    /\ Len(accepted) = 2
    /\ accepted[2].by = "computer"
    /\ computer_result.last_letter = <<Last(accepted[2].name)>>
    /\ unseen_countries[First(accepted[2].name)] # {}

\* C12: when a player turn starts with a required letter whose Unseen
\* bucket is empty, it resolves to LOSE without reading an input, without
\* spending an attempt and without changing Unseen.
C12_NoCountriesLeft ==
    [][(/\ pc = "player_move"
        /\ last_letter # None
        /\ last_letter # <<>>
        /\ unseen_countries[First(last_letter)] = {})
         => /\ player_result' = MoveResult("LOSE", None)
            /\ output' = <<"out_of_luck">>
            /\ pc' = "done"
            /\ invalid_inputs' = 0
            /\ UNCHANGED <<unseen_countries, player_input, attempts_left,
                           pm_attempts_left, accepted>>]_vars

C12_Witness ==
    /\ pc = "done"
    /\ output = <<"out_of_luck">>
    /\ player_result = MoveResult("LOSE", None)
    /\ unseen_countries[First(last_letter)] = {}
    /\ Len(accepted) = 2

\* A line that holds one of the forbidden separators.
HasSeparator(line) == \E sep \in FORBIDDEN_SEPARATORS : Contains(line, sep)

\* C13: at load every raw line that contains a forbidden separator is kept
\* out of AllCountries and Unseen and recorded in Invalid-Entries, whatever
\* its casing and the whitespace around it; every other non-blank line is
\* inserted lowercased and trimmed.
C13_SeparatorLinesRejected ==
    \A i \in 1..Len(file) :
        LET line == file[i] IN
        IF HasSeparator(line)
        THEN /\ Strip(line) \in invalid_countries
             /\ Lower(Strip(line)) \notin all_countries
             /\ \A L \in Keys : Lower(Strip(line)) \notin unseen_countries[L]
        ELSE Strip(line) # <<>>
                => /\ Lower(Strip(line)) \in all_countries
                   /\ pc = "start"
                        => Lower(Strip(line)) \in
                             unseen_countries[First(Lower(Strip(line)))]

\* C14: construction fails exactly when, with blank lines skipped and
\* separator lines rejected, no line is left, that is when AllCountries is
\* empty; a failed construction takes no move, and every constructed
\* session has a non-empty AllCountries of non-empty names.
C14_LoadError ==
    /\ [](pc = "failed"
            <=> \A i \in 1..Len(file) :
                  Strip(file[i]) = <<>> \/ HasSeparator(Strip(file[i])))
    /\ [](pc = "failed" <=> all_countries = {})
    /\ [](\A c \in all_countries : Len(c) >= 1)
    /\ [][pc # "failed"]_vars

C14_Witness ==
    /\ pc = "failed"
    /\ Len(file) >= 3
    /\ Cardinality(invalid_countries) >= 2
    /\ \E i \in 1..Len(file) : Strip(file[i]) = <<>>

\* A MoveResult carries a letter exactly when its status is CONTINUE.
LetterIffContinue(result) ==
    result.last_letter # None <=> result.status = "CONTINUE"

\* C15: every outcome of a player or computer move carries a trailing
\* letter exactly when its status is CONTINUE; the letter is then the last
\* character of the name accepted in that move and the required letter of
\* the next mover.
C15_TrailingLetter ==
    /\ [](LetterIffContinue(player_result)
            /\ LetterIffContinue(computer_result))
    /\ [][(pc = "input" /\ pc' = "computer_move")
            => /\ player_result'.status = "CONTINUE"
               /\ accepted' = Append(accepted, [by |-> "player",
                                                name |-> player_input'])
               /\ player_result'.last_letter =
                    <<player_input'[Len(player_input')]>>]_vars
    /\ [][(pc = "computer_move" /\ Len(accepted') > Len(accepted))
            => LET name == accepted'[Len(accepted')].name IN
               /\ <<name[1]>> = player_result.last_letter
               /\ computer_result' =
                    MoveResult("CONTINUE", <<name[Len(name)]>>)
               /\ last_letter' = computer_result'.last_letter
               /\ pc' = "player_move"]_vars
    /\ [][(pc = "computer_move"
           /\ computer_result'.status = "CONTINUE")
            => Len(accepted') > Len(accepted)]_vars
    /\ [][(pc = "input" /\ pc' = "computer_move" /\ accepted # <<>>)
            => /\ last_letter = computer_result.last_letter
               /\ <<player_input'[1]>> = last_letter]_vars

C15_Witness ==
    /\ pc = "computer_move"
    /\ Len(accepted) = 3
    /\ player_result = MoveResult("CONTINUE", <<Last(accepted[3].name)>>)
    /\ computer_result = MoveResult("CONTINUE", <<Last(accepted[2].name)>>)
    /\ last_letter = computer_result.last_letter

\* The statuses of PlayerStatus.
Statuses == {"CONTINUE", "WIN", "LOSE", "RETRY", "QUIT", "RESTART"}

\* The exceptions a move can raise.
Errors == {"TypeError", "ValueError", "KeyError"}

\* C16: in any run of play() every player move and every computer move
\* resolves to one of the six statuses and no error is raised; the letter
\* passed to a player move is empty or one character, and a name is
\* removed from an unseen bucket only when it is in that bucket.
C16_NoErrorInPlay ==
    /\ [](pc \notin Errors)
    /\ [](pc \in {"player_move", "input"}
            => last_letter # None /\ Len(last_letter) <= 1)
    /\ [][(pc \in {"player_move", "input"} /\ pc' \notin {pc, "input"})
            => /\ player_result'.status \in Statuses
               /\ pc' \in {"player_move", "computer_move", "done"}]_vars
    /\ [][pc = "computer_move"
            => /\ computer_result'.status \in Statuses
               /\ pc' \in {"player_move", "done"}]_vars
    /\ [][Len(accepted') > Len(accepted)
            => LET name == accepted'[Len(accepted')].name IN
               /\ name \in unseen_countries[First(name)]
               /\ unseen_countries' =
                    [unseen_countries EXCEPT ![First(name)] = @ \ {name}]]_vars

C16_Witness ==
    /\ pc = "player_move"
    /\ Len(last_letter) = 1
    /\ Len(accepted) >= 2
    /\ consumed_at_reset > 0
    /\ player_result.status \in Statuses
    /\ computer_result.status \in Statuses

\* C17: _get_player_move called with a letter longer than one character
\* raises ValueError before any input is read, whatever the attempts
\* value, and leaves unseen_countries and all_countries unchanged.
C17_LetterTooLong ==
    /\ [][(pc = "direct_player" /\ last_letter # None
           /\ Len(last_letter) > 1)
            => /\ pc' = "ValueError"
               /\ output' = <<>>
               /\ UNCHANGED <<unseen_countries, all_countries, player_input,
                              player_result, attempts_left>>]_vars
    /\ [](pc = "ValueError"
            => /\ Len(last_letter) > 1
               /\ unseen_countries = ResetAll(all_countries)
               /\ player_input = <<>>
               /\ ~ENABLED NextWithCalls)

C17_Witness ==
    /\ pc = "ValueError"
    /\ Len(last_letter) = 5
    /\ attempts_left = 0
    /\ Cardinality(all_countries) >= 3

\* The message the order of checks gives a trimmed, lowercased input:
\* quit, restart, empty, not a country, wrong first letter, already used.
Resolution(inp) ==
    IF inp = QUIT_TOKEN THEN "bye"
    ELSE IF inp = RESTART_TOKEN THEN "restarted"
    ELSE IF inp = <<>> THEN "empty"
    ELSE IF inp \notin all_countries THEN "invalid"
    ELSE IF last_letter # <<>> /\ inp[1] # last_letter[1] THEN "wrong_letter"
    ELSE IF inp \notin unseen_countries[inp[1]] THEN "already_used"
    ELSE "accepted"

\* C18: each player input is resolved, after trimming and lowercasing, by
\* the checks quit, restart, empty, not in all_countries, wrong first
\* letter, already used, in that order.  So quit and restart are honoured
\* in any casing, whatever the required letter, and spend no attempt; an
\* input that is not a country spends one attempt and does not lose at
\* once even when its first letter is wrong; an already used country with
\* the wrong first letter gets the wrong-letter LOSE.
C18_CheckOrder ==
    /\ [][pc = "input"
            => LET said == Resolution(player_input') IN
               IF said = "restarted"
               THEN output'[1] = "clear" /\ output'[2] = said
               ELSE output'[1] = said]_vars
    /\ [][PlayerInput(<<" ","Q","U","I","T">>)
            => /\ player_result' = MoveResult("QUIT", None)
               /\ pm_attempts_left' = pm_attempts_left
               /\ pc' = "done"]_vars
    /\ [][PlayerInput(<<"R","e","s","t","a","r","t"," ">>)
            => /\ player_result' = MoveResult("RESTART", None)
               /\ pm_attempts_left' = pm_attempts_left
               /\ pc' = "player_move"]_vars
    /\ [][(pc = "input"
           /\ player_input' \notin all_countries \cup {QUIT_TOKEN, RESTART_TOKEN})
            => /\ pm_attempts_left' = pm_attempts_left - 1
               /\ pm_attempts_left > 1 => pc' = "input"
               /\ pm_attempts_left = 1 => output'[2] = "max_invalid"]_vars
    /\ [][(pc = "input"
           /\ player_input' \in all_countries
           /\ last_letter # <<>>
           /\ <<First(player_input')>> # last_letter
           /\ player_input' \notin unseen_countries[First(player_input')])
            => /\ output' = <<"wrong_letter">>
               /\ player_result' = MoveResult("LOSE", None)
               /\ pc' = "done"]_vars

C18_Witness ==
    /\ pc = "done"
    /\ output = <<"wrong_letter">>
    /\ player_input \in all_countries
    /\ player_input \notin unseen_countries[First(player_input)]

\* C19: all_countries and invalid_countries never change after
\* construction, and every input or move that does not resolve to CONTINUE
\* or RESTART leaves unseen_countries unchanged.
C19_Frame ==
    /\ [][/\ all_countries' = all_countries
          /\ invalid_countries' = invalid_countries]_vars
    /\ [][unseen_countries' # unseen_countries
            => \/ /\ pc = "input"
                  /\ pc' # "input"
                  /\ player_result'.status \in {"CONTINUE", "RESTART"}
               \/ /\ pc = "computer_move"
                  /\ computer_result'.status = "CONTINUE"
                  /\ Len(accepted') > Len(accepted)]_vars
    /\ [][(pc = "input" /\ output'[1] \in {"bye", "empty", "invalid",
                                           "wrong_letter", "already_used"})
            => unseen_countries' = unseen_countries]_vars
    /\ [][(pc = "player_move" \/ (pc = "computer_move" /\ pc' = "done"))
            => unseen_countries' = unseen_countries]_vars

C19_Witness ==
    /\ pc = "done"
    /\ output = <<"wrong_letter">>
    /\ player_input \in unseen_countries[First(player_input)]
    /\ Len(accepted) >= 2

\* The positions of a run of play().
PlayPositions == {"start", "player_move", "input", "computer_move", "done"}

\* C20: _get_computer_move called with an empty or absent letter returns
\* RETRY with no letter.  This never happens in play(): the computer move
\* is called only right after a player CONTINUE, which carries a letter,
\* so play() never hands None to the next player move.
C20_Retry ==
    /\ [][(pc = "direct_computer" /\ last_letter \in {None, <<>>})
            => /\ computer_result' = MoveResult("RETRY", None)
               /\ output' = <<"cannot_respond">>
               /\ pc' = "direct_returned"
               /\ UNCHANGED unseen_countries]_vars
    /\ [](pc \in PlayPositions
            => /\ computer_result.status # "RETRY"
               /\ last_letter # None)
    /\ [](pc = "computer_move"
            => /\ player_result.status = "CONTINUE"
               /\ player_result.last_letter # None
               /\ Len(player_result.last_letter) = 1)
    /\ [][pc' = "computer_move"
            => /\ pc = "input"
               /\ player_result'.status = "CONTINUE"]_vars
    /\ [][pc = "computer_move"
            => output' # <<"cannot_respond">>]_vars

C20_Witness ==
    /\ pc = "direct_returned"
    /\ last_letter = None
    /\ computer_result = MoveResult("RETRY", None)
    /\ unseen_countries = ResetAll(all_countries)
    /\ Cardinality(all_countries) >= 2

\* The number of names in the unseen buckets.
UnseenCount == Cardinality(UNION {unseen_countries[k] : k \in Keys})

\* A step of play() in which the player's input resolves to RESTART.
RestartEntered == pc = "input" /\ player_result'.status = "RESTART"

\* play() has left its loop with LOSE, WIN or QUIT.
Terminal ==
    /\ pc = "done"
    /\ \/ player_result.status \in {"LOSE", "QUIT"}
       \/ computer_result.status \in {"WIN", "LOSE"}

\* C21: the game ends unless the player keeps restarting.  Every player
\* turn resolves after reading at most MAX_INVALID_INPUTS inputs; every
\* CONTINUE shrinks unseen_countries by one name, so at most
\* |all_countries| names are accepted between two restarts; and a run of
\* play() with finitely many restarts reaches LOSE, WIN or QUIT.
C21_Terminates ==
    /\ [](pc = "input"
            => /\ invalid_inputs + 1 <= MAX_INVALID_INPUTS
               /\ pm_attempts_left = MAX_INVALID_INPUTS - invalid_inputs)
    /\ [][(pc = "input" /\ pc' = "input")
            => invalid_inputs' = invalid_inputs + 1]_vars
    /\ [][(player_result'.status = "CONTINUE" /\ pc = "input" /\ pc' # "input")
          \/ (computer_result'.status = "CONTINUE" /\ pc = "computer_move")
            => /\ UnseenCount' = UnseenCount - 1
               /\ Len(accepted') = Len(accepted) + 1]_vars
    /\ [](pc \in {"player_move", "input", "computer_move", "done"}
            => /\ Len(accepted) + UnseenCount = Cardinality(all_countries)
               /\ Len(accepted) <= Cardinality(all_countries))
    /\ (pc = "start" /\ <>[][~RestartEntered]_vars) => <>Terminal

C21_Witness ==
    /\ Terminal
    /\ player_result.status = "LOSE"
    /\ invalid_inputs = MAX_INVALID_INPUTS
    /\ consumed_at_reset > 0
    /\ Len(accepted) >= 2

====
